---- MODULE Spec2Model ----
(***************************************************************************)
(* MXU desktop shell (src-tauri): the Windows start-up bootstrap of        *)
(* main.rs, the window / tray / overlay event handling of lib.rs, tray.rs  *)
(* and commands/system.rs, and the standalone WebView2 acquisition flow of *)
(* webview2/install.rs.                                                    *)
(*                                                                         *)
(* Three specifications:                                                   *)
(*   SpecStartup main() of main.rs up to the end of the setup hook         *)
(*   Spec        the running application: window events, commands, tray    *)
(*   SpecInstall webview2::install::ensure_webview2 (install.rs)           *)
(***************************************************************************)
EXTENDS Integers, Sequences, FiniteSets, TLC

VARIABLES
    \* ---- main.rs ----------------------------------------------------
    regWow,         \* HKLM\SOFTWARE\WOW6432Node\...\{F3017226-...} exists
    regNative,      \* HKLM\SOFTWARE\Microsoft\...\{F3017226-...} exists
    pc,             \* position of main(): start, checked, setup, running, exited
    installedSeen,  \* what is_webview2_installed returned: "none", "true", "false"
    promptShown,    \* show_install_prompt was called
    dialog,         \* last message box of the bootstrap
    installError,   \* the Err of download_and_install shown to the user
    ensured,        \* return value of webview2_check::ensure_webview2
    uiStarted,      \* mxu_lib::run was entered
    exitCode,       \* process exit code, -1 while the process lives
    \* ---- lib.rs setup -----------------------------------------------
    stateManaged,   \* Arc<MaaState> registered with app.manage
    appHandleSet,   \* maa_ffi::set_app_handle called
    setupCalls,     \* the calls the setup hook made, in order
    setupRet,       \* the setup hook's result: "none", "ok", "err"
    libState,       \* "unloaded", "loaded", "failed", "missing"
    vcredistMissing,\* maa_ffi::set_vcredist_missing(true) called
    trayReady,      \* TRAY_ICON holds Some(tray)
    \* ---- tray.rs / windows ------------------------------------------
    minimizeToTray, \* static MINIMIZE_TO_TRAY
    lastSetArg,     \* argument of the most recent set_minimize_to_tray call
    mainWin,        \* [exists, visible, decorated] of the window "main"
    overlay,        \* the window "log-overlay", NoOverlay when absent
    pending,        \* window events queued in the event loop
    lastHandled,    \* the handler, command or user action that ran last
    emits,          \* events emitted by the step that ran last
    closePrevented, \* api.prevent_close() was called by the handler that ran last
    cleanupCalled,  \* windows whose Destroyed handler called cleanup_all_agent_children
    createInFlight, \* create_log_overlay_window calls invoked that have not run yet
    cmdResult,      \* what the handler that ran last returned: "none", "ok", "err"
    \* ---- webview2/install.rs ----------------------------------------
    ipc,            \* position inside install::ensure_webview2
    disabledReason, \* is_webview2_disabled(): "none" or a reason
    sysInstalled,   \* detection::is_webview2_installed()
    arch,           \* std::env::consts::ARCH
    exePathOk,      \* std::env::current_exe() succeeds and has a parent
    localCab,       \* cab beside the exe: "none", "matched", "mismatched"
    rtHasExe,       \* cache/webview2_runtime/msedgewebview2.exe exists
    envVar,         \* WEBVIEW2_BROWSER_EXECUTABLE_FOLDER: "unset" or RuntimeDir
    validated,      \* validate_runtime_dir returned Ok in this call
    usedSystem,     \* the "system WebView2" branch returned
    dlResult,       \* download_and_extract: "none", "ok", "err"
    dlPath,         \* which path produced dlResult: "none", "local", "cdn"
    idialogs,       \* dialogs shown by install.rs, in order
    ensureRet,      \* install::ensure_webview2: "none", "true", "false"
    \* tray.rs, the tray icon
    trayIcon,       \* [custom, path]: the image the tray icon shows
    trayTooltip,    \* the tray icon's tooltip, "" while there is no tray icon
    iconArg,        \* icon_path of the last update_tray_icon call
    iconRead,       \* the files the last update_tray_icon call read
    \* mxu_actions.rs and the vendor library's custom-action registry
    registry,       \* resource -> action name -> registered callback
    regCalls,       \* MaaResourceRegisterCustomAction calls of the last run
    regLog,         \* log levels written by the last run, in order
    regRet          \* register_all_mxu_actions: "none", "ok", "err"

bootVars == <<regWow, regNative, pc, installedSeen, promptShown, dialog,
              installError, ensured, uiStarted, exitCode>>
setupVars == <<stateManaged, appHandleSet, setupCalls, setupRet, libState,
               vcredistMissing, trayReady>>
winVars == <<minimizeToTray, lastSetArg, mainWin, overlay, pending,
             lastHandled, emits, closePrevented, cleanupCalled,
             createInFlight, cmdResult>>
instVars == <<ipc, disabledReason, sysInstalled, arch, exePathOk, localCab,
              rtHasExe, envVar, validated, usedSystem, dlResult, dlPath,
              idialogs, ensureRet>>
trayVars == <<trayIcon, trayTooltip, iconArg, iconRead>>
regVars == <<registry, regCalls, regLog, regRet>>
vars == <<bootVars, setupVars, winVars, instVars, trayVars, regVars>>

(***************************************************************************)
(* main.rs : webview2_check                                                *)
(***************************************************************************)

\* is_webview2_installed: the function returns on its first statement
\* ("return false; // forced for testing"); the registry and DLL probes that
\* follow it are never executed.
is_webview2_installed(wow, native) == FALSE

\* The steps of download_and_install that can fail, in order, and the exit
\* codes of the bootstrapper the model distinguishes.
InstallFailures == {"none", "client", "send", "status", "bytes", "write", "spawn"}
AlreadyInstalledCode == -2147219416
InstallerCodes == {0, 1, AlreadyInstalledCode}

\* download_and_install (main.rs 189-239): "ok" iff every step succeeded and
\* the installer exited with 0 or with "already installed"; otherwise the
\* step that failed.
download_and_install(failure, code) ==
    IF failure # "none" THEN failure
    ELSE IF code = 0 \/ code = AlreadyInstalledCode THEN "ok" ELSE "exit_code"

\* ensure_webview2 of main.rs (main.rs 243-267), as a record of what it did
\* and returned.
ensure_webview2(wow, native, answerYes, failure, code) ==
    IF is_webview2_installed(wow, native)
    THEN [ret |-> TRUE, seen |-> "true", prompt |-> FALSE, dlg |-> "none",
          err |-> "none"]
    ELSE IF answerYes
         THEN IF download_and_install(failure, code) = "ok"
              THEN [ret |-> TRUE, seen |-> "false", prompt |-> TRUE,
                    dlg |-> "success", err |-> "none"]
              ELSE [ret |-> FALSE, seen |-> "false", prompt |-> TRUE,
                    dlg |-> "manual_with_error",
                    err |-> download_and_install(failure, code)]
         ELSE [ret |-> FALSE, seen |-> "false", prompt |-> TRUE,
               dlg |-> "manual", err |-> "none"]

\* main(): the call of ensure_webview2 (main.rs 274).
MainEnsure ==
    /\ pc = "start"
    /\ \E answerYes \in BOOLEAN, failure \in InstallFailures, code \in InstallerCodes :
         LET r == ensure_webview2(regWow, regNative, answerYes, failure, code) IN
         /\ ensured' = r.ret
         /\ installedSeen' = r.seen
         /\ promptShown' = r.prompt
         /\ dialog' = r.dlg
         /\ installError' = r.err
    /\ pc' = "checked"
    /\ UNCHANGED <<regWow, regNative, uiStarted, exitCode>>
    /\ UNCHANGED <<setupVars, winVars, instVars, trayVars, regVars>>

\* main(): std::process::exit(1) when ensure_webview2 returned false.
MainExit ==
    /\ pc = "checked"
    /\ ~ensured
    /\ pc' = "exited"
    /\ exitCode' = 1
    /\ UNCHANGED <<regWow, regNative, installedSeen, promptShown, dialog,
                   installError, ensured, uiStarted>>
    /\ UNCHANGED <<setupVars, winVars, instVars, trayVars, regVars>>

\* The window "main" as the host framework creates it before the setup hook.
MainWindowAtStart == [exists |-> TRUE, visible |-> TRUE, decorated |-> TRUE]

\* MainRun without the test of ensure_webview2's result.
MainRunUnchecked ==
    /\ pc = "checked"
    /\ pc' = "setup"
    /\ uiStarted' = TRUE
    /\ mainWin' = MainWindowAtStart
    /\ UNCHANGED <<regWow, regNative, installedSeen, promptShown, dialog,
                   installError, ensured, exitCode>>
    /\ UNCHANGED <<minimizeToTray, lastSetArg, overlay, pending, lastHandled,
                   emits, closePrevented, cleanupCalled, createInFlight, cmdResult>>
    /\ UNCHANGED <<setupVars, instVars, trayVars, regVars>>

\* main(): mxu_lib::run() is entered.
MainRun ==
    /\ pc = "checked"
    /\ ensured
    /\ pc' = "setup"
    /\ uiStarted' = TRUE
    /\ mainWin' = MainWindowAtStart
    /\ UNCHANGED <<regWow, regNative, installedSeen, promptShown, dialog,
                   installError, ensured, exitCode>>
    /\ UNCHANGED <<minimizeToTray, lastSetArg, overlay, pending, lastHandled,
                   emits, closePrevented, cleanupCalled, createInFlight, cmdResult>>
    /\ UNCHANGED <<setupVars, instVars, trayVars, regVars>>

(***************************************************************************)
(* lib.rs : the setup hook                                                 *)
(***************************************************************************)

\* The elements of a sequence.
Range(seq) == {seq[i] : i \in DOMAIN seq}

\* The exit code of a Rust process that panics.
PanicExitCode == 101

\* What the environment can answer to the setup hook: get_maafw_dir and the
\* directory's existence, init_maa_library, init_tray.
MaafwDirs == {"err", "absent", "present"}
LibInits == {"ok", "load_failed_dlls_exist", "load_failed_no_dlls", "other_err"}

\* libState after the "load MaaFramework" block of the setup hook.
SetupLibState(dir, init) ==
    IF dir = "err" THEN "unloaded"
    ELSE IF dir = "absent" THEN "missing"
    ELSE IF init = "ok" THEN "loaded" ELSE "failed"

\* The tooltip init_tray gives the tray icon (tray.rs 47).
InitialTooltip == "MXU"

\* A setup hook that propagates the errors of init_maa_library and
\* init_tray to its caller.
SetupHookPropagating(hasMain, dir, init, trayOk) ==
    LET head == <<"manage", "set_app_handle">>
                \o (IF hasMain THEN <<"set_decorations">> ELSE <<>>)
                \o <<"get_maafw_dir">>
    IN  IF dir = "present" /\ init # "ok"
        THEN [calls |-> head \o <<"init_maa_library">>, ret |-> "err"]
        ELSE [calls |-> head
                  \o (IF dir = "present" THEN <<"init_maa_library">> ELSE <<>>)
                  \o <<"init_tray">>,
              ret |-> IF trayOk THEN "ok" ELSE "err"]

\* The setup hook (lib.rs 46-113): the calls it makes, in order, and its
\* result.  Errors of get_maafw_dir, init_maa_library and init_tray are
\* logged (lib.rs 90, 103, 109); the hook ends with Ok(()) (lib.rs 112).
SetupHook(hasMain, dir, init, trayOk) ==
    [calls |-> <<"manage", "set_app_handle">>
               \o (IF hasMain THEN <<"set_decorations">> ELSE <<>>)
               \o <<"get_maafw_dir">>
               \o (IF dir = "present" THEN <<"init_maa_library">> ELSE <<>>)
               \o (IF dir = "present" /\ init = "load_failed_dlls_exist"
                   THEN <<"set_vcredist_missing">> ELSE <<>>)
               \o <<"init_tray">>,
     ret |-> "ok"]

\* The setup hook runs; an Err from it makes the builder's run() fail and
\* the `expect` on it panic (lib.rs 230-231), which ends the process.
Setup ==
    /\ pc = "setup"
    /\ \E dir \in MaafwDirs, init \in LibInits, trayOk \in BOOLEAN :
         /\ setupCalls' = SetupHook(mainWin.exists, dir, init, trayOk).calls
         /\ setupRet' = SetupHook(mainWin.exists, dir, init, trayOk).ret
         /\ stateManaged' = ("manage" \in Range(setupCalls'))
         /\ appHandleSet' = ("set_app_handle" \in Range(setupCalls'))
         /\ mainWin' = IF mainWin.exists
                       THEN [mainWin EXCEPT !.decorated = FALSE]
                       ELSE mainWin
         /\ libState' = SetupLibState(dir, init)
         /\ vcredistMissing' = ("set_vcredist_missing" \in Range(setupCalls'))
         /\ trayReady' = (trayOk /\ "init_tray" \in Range(setupCalls'))
         /\ trayTooltip' = IF trayReady' THEN InitialTooltip ELSE ""
    /\ pc' = IF setupRet' = "ok" THEN "running" ELSE "exited"
    /\ exitCode' = IF setupRet' = "ok" THEN exitCode ELSE PanicExitCode
    /\ lastHandled' = [op |-> "setup", label |-> "", by |-> ""]
    /\ emits' = <<>>
    /\ UNCHANGED <<regWow, regNative, installedSeen, promptShown, dialog,
                   installError, ensured, uiStarted>>
    /\ closePrevented' = FALSE
    /\ cmdResult' = "ok"
    /\ UNCHANGED <<minimizeToTray, lastSetArg, overlay, pending, cleanupCalled, createInFlight>>
    /\ UNCHANGED <<trayIcon, iconArg, iconRead>>
    /\ UNCHANGED <<instVars, regVars>>

(***************************************************************************)
(* Windows, the event loop and tray.rs                                     *)
(***************************************************************************)

\* The value of overlay while no window is labelled "log-overlay".
\* onTop is the window's always-on-top attribute; askedOnTop is the
\* always_on_top argument of the call that last set it.
NoOverlay == [exists |-> FALSE, visible |-> FALSE, onTop |-> FALSE,
              askedOnTop |-> FALSE,
              w |-> 0, h |-> 0, x |-> 0, y |-> 0]

\* Geometry the front end asks for when it creates the overlay.
OverlaySizes == {<<480, 320>>}
OverlayPositions == {<<20, 40>>}

\* Fallbacks of the "log-overlay-closed" payload (lib.rs 198-201).
DefaultWidth == 360
DefaultHeight == 260
DefaultX == 100
DefaultY == 100

Handled(op, label, by) == [op |-> op, label |-> label, by |-> by]
WinEvent(ev, label, by) == [ev |-> ev, label |-> label, by |-> by]

\* Events of a window that the event loop still holds.
EventsOf(label) == {e \in pending : e.label = label}

\* The queue after window `label` was destroyed (`by` names what destroyed
\* it): its undelivered close requests are gone and its Destroyed event is
\* queued.
AfterDestroy(q, label, by) ==
    {e \in q : e.label # label} \cup {WinEvent("Destroyed", label, by)}

\* tray::set_minimize_to_tray / get_minimize_to_tray (tray.rs 19-26).
set_minimize_to_tray(enabled) == enabled
get_minimize_to_tray == minimizeToTray

\* tray::show_main_window (tray.rs 100-106).
show_main_window(mw) == IF mw.exists THEN [mw EXCEPT !.visible = TRUE] ELSE mw

\* handle_close_requested without the read of MINIMIZE_TO_TRAY.
handle_close_requested_ignoring_setting(mw) == [prevent |-> FALSE, main |-> mw]

\* tray::handle_close_requested (tray.rs 109-119): whether the close is to
\* be prevented, and the main window after the call.
handle_close_requested(mw) ==
    IF get_minimize_to_tray
    THEN [prevent |-> TRUE,
          main |-> IF mw.exists THEN [mw EXCEPT !.visible = FALSE] ELSE mw]
    ELSE [prevent |-> FALSE, main |-> mw]

\* The payload of "log-overlay-closed" (lib.rs 195-202): the window's size
\* and position, each replaced by its defaults when it cannot be read.
OverlayClosedPayload(win, sizeOk, posOk) ==
    [width  |-> IF sizeOk THEN win.w ELSE DefaultWidth,
     height |-> IF sizeOk THEN win.h ELSE DefaultHeight,
     x      |-> IF posOk THEN win.x ELSE DefaultX,
     y      |-> IF posOk THEN win.y ELSE DefaultY]

\* Events emitted by the CloseRequested handler for window `label`.
CloseRequestedEmits(label, win, sizeOk, posOk) ==
    IF label = "log-overlay"
    THEN << [name |-> "log-overlay-closed", target |-> "app",
             payload |-> OverlayClosedPayload(win, sizeOk, posOk)] >>
    ELSE <<>>

\* OverlayDestroyedByMainClose restricted to closes that will proceed.
OverlayDestroyedOnlyByRealClose(label) ==
    label = "main" /\ overlay.exists /\ ~minimizeToTray

\* lib.rs 205-210: a close request on "main" destroys the overlay.
OverlayDestroyedByMainClose(label) == label = "main" /\ overlay.exists

\* on_window_event, WindowEvent::CloseRequested (lib.rs 192-214), followed by
\* the runtime closing the window when the close was not prevented.
CloseRequested(e) ==
    /\ pc = "running"
    /\ e \in pending
    /\ e.ev = "CloseRequested"
    /\ \E sizeOk \in BOOLEAN, posOk \in BOOLEAN :
         emits' = CloseRequestedEmits(e.label, overlay, sizeOk, posOk)
    /\ LET killOverlay == OverlayDestroyedByMainClose(e.label)
           q1 == IF killOverlay
                 THEN AfterDestroy(pending \ {e}, "log-overlay", "main_close_requested")
                 ELSE pending \ {e}
           ov1 == IF killOverlay THEN NoOverlay ELSE overlay
           h == handle_close_requested(mainWin)
       IN
       /\ closePrevented' = h.prevent
       /\ IF h.prevent
          THEN /\ mainWin' = h.main
               /\ overlay' = ov1
               /\ pending' = q1
          ELSE IF e.label = "main"
          THEN /\ mainWin' = [h.main EXCEPT !.exists = FALSE, !.visible = FALSE]
               /\ overlay' = ov1
               /\ pending' = AfterDestroy(q1, "main", "closed")
          ELSE /\ mainWin' = h.main
               /\ overlay' = NoOverlay
               /\ pending' = AfterDestroy(q1, "log-overlay", "closed")
    /\ lastHandled' = Handled("CloseRequested", e.label, e.by)
    /\ cmdResult' = "none"
    /\ UNCHANGED <<minimizeToTray, lastSetArg, cleanupCalled, createInFlight>>
    /\ UNCHANGED <<bootVars, setupVars, instVars, trayVars, regVars>>

\* OverlayDestroyedByMainDestroy with the overlay left alone.
OverlayDestroyedByMainDestroyNever(label) == FALSE

\* lib.rs 217-222: the destruction of "main" destroys the overlay.
OverlayDestroyedByMainDestroy(label) == label = "main" /\ overlay.exists

\* lib.rs 223-225: cleanup_all_agent_children is called when the MaaState
\* is registered, whichever window was destroyed.
CleanupOnDestroyed(label) == stateManaged

\* on_window_event, WindowEvent::Destroyed (lib.rs 216-226).
Destroyed(e) ==
    /\ pc = "running"
    /\ e \in pending
    /\ e.ev = "Destroyed"
    /\ IF OverlayDestroyedByMainDestroy(e.label)
       THEN /\ overlay' = NoOverlay
            /\ pending' = AfterDestroy(pending \ {e}, "log-overlay", "main_destroyed")
       ELSE /\ overlay' = overlay
            /\ pending' = pending \ {e}
    /\ cleanupCalled' = IF CleanupOnDestroyed(e.label)
                        THEN cleanupCalled \cup {e.label}
                        ELSE cleanupCalled
    /\ lastHandled' = Handled("Destroyed", e.label, e.by)
    /\ emits' = <<>>
    /\ closePrevented' = FALSE
    /\ cmdResult' = "none"
    /\ UNCHANGED <<minimizeToTray, lastSetArg, mainWin, createInFlight>>
    /\ UNCHANGED <<bootVars, setupVars, instVars, trayVars, regVars>>

\* The user asks a visible window to close (title-bar button, Alt+F4).
UserCloseRequest(label) ==
    /\ pc = "running"
    /\ \/ label = "main" /\ mainWin.exists /\ mainWin.visible
       \/ label = "log-overlay" /\ overlay.exists /\ overlay.visible
    /\ pending' = pending \cup {WinEvent("CloseRequested", label, "user")}
    /\ lastHandled' = Handled("user_close_request", label, "user")
    /\ emits' = <<>>
    /\ closePrevented' = FALSE
    /\ cmdResult' = "none"
    /\ UNCHANGED <<minimizeToTray, lastSetArg, mainWin, overlay, cleanupCalled,
                   createInFlight>>
    /\ UNCHANGED <<bootVars, setupVars, instVars, trayVars, regVars>>

(***************************************************************************)
(* Commands invoked by the front end (commands/tray.rs, commands/system.rs)*)
(***************************************************************************)

\* A command can be invoked while some webview of the application lives.
CanInvoke == pc = "running" /\ (mainWin.exists \/ overlay.exists)

\* commands::tray::set_minimize_to_tray (commands/tray.rs 6-10).
SetMinimizeToTray(enabled) ==
    /\ CanInvoke
    /\ minimizeToTray' = set_minimize_to_tray(enabled)
    /\ lastSetArg' = enabled
    /\ lastHandled' = Handled("set_minimize_to_tray", "", "command")
    /\ emits' = <<>>
    /\ cmdResult' = "ok"
    /\ closePrevented' = FALSE
    /\ UNCHANGED <<mainWin, overlay, pending, cleanupCalled, createInFlight>>
    /\ UNCHANGED <<bootVars, setupVars, instVars, trayVars, regVars>>

\* How far create_log_overlay_window gets before it returns.
CreateOutcomes == {"ok", "build_err", "position_err", "show_err"}

\* A builder that ignores its always_on_top argument and always sets the
\* attribute.
BuiltOverlayAlwaysOnTop(size, pos, onTop, outcome) ==
    [exists |-> TRUE,
     visible |-> (outcome = "ok"),
     onTop |-> TRUE,
     askedOnTop |-> onTop,
     w |-> size[1], h |-> size[2],
     x |-> IF outcome = "position_err" THEN 0 ELSE pos[1],
     y |-> IF outcome = "position_err" THEN 0 ELSE pos[2]]

\* The window built by create_log_overlay_window (system.rs 358-387);
\* .always_on_top(always_on_top) is line 367.
BuiltOverlay(size, pos, onTop, outcome) ==
    [exists |-> TRUE,
     visible |-> (outcome = "ok"),
     onTop |-> onTop,
     askedOnTop |-> onTop,
     w |-> size[1], h |-> size[2],
     x |-> IF outcome = "position_err" THEN 0 ELSE pos[1],
     y |-> IF outcome = "position_err" THEN 0 ELSE pos[2]]

\* Bound on the create_log_overlay_window calls in flight at once.
MaxInFlight == 1

\* The front end invokes create_log_overlay_window; the command is async and
\* runs later on the async runtime, possibly after the invoking window closed.
InvokeCreateLogOverlay ==
    /\ CanInvoke
    /\ createInFlight < MaxInFlight
    /\ createInFlight' = createInFlight + 1
    /\ lastHandled' = Handled("invoke", "create_log_overlay_window", "frontend")
    /\ emits' = <<>>
    /\ closePrevented' = FALSE
    /\ cmdResult' = "none"
    /\ UNCHANGED <<minimizeToTray, lastSetArg, mainWin, overlay, pending,
                   cleanupCalled>>
    /\ UNCHANGED <<bootVars, setupVars, instVars, trayVars, regVars>>

\* commands::system::create_log_overlay_window (system.rs 338-392).
CreateLogOverlayWindow ==
    /\ pc = "running"
    /\ createInFlight > 0
    /\ createInFlight' = createInFlight - 1
    /\ \E size \in OverlaySizes, pos \in OverlayPositions,
          onTop \in BOOLEAN, outcome \in CreateOutcomes :
         IF overlay.exists
         THEN /\ overlay' = [overlay EXCEPT !.visible = TRUE]
              /\ cmdResult' = "ok"
         ELSE IF outcome = "build_err"
         THEN /\ overlay' = overlay
              /\ cmdResult' = "err"
         ELSE /\ overlay' = BuiltOverlay(size, pos, onTop, outcome)
              /\ cmdResult' = IF outcome = "ok" THEN "ok" ELSE "err"
    /\ lastHandled' = Handled("create_log_overlay_window", "log-overlay", "command")
    /\ emits' = <<>>
    /\ closePrevented' = FALSE
    /\ UNCHANGED <<minimizeToTray, lastSetArg, mainWin, pending, cleanupCalled>>
    /\ UNCHANGED <<bootVars, setupVars, instVars, trayVars, regVars>>

\* commands::system::set_overlay_always_on_top (system.rs 520-536).
SetOverlayAlwaysOnTop(onTop) ==
    /\ CanInvoke
    /\ \E setOk \in BOOLEAN :
         IF ~overlay.exists
         THEN /\ overlay' = overlay
              /\ cmdResult' = "err"
         ELSE IF setOk
         THEN /\ overlay' = [overlay EXCEPT !.onTop = onTop,
                                            !.askedOnTop = onTop]
              /\ cmdResult' = "ok"
         ELSE /\ overlay' = overlay
              /\ cmdResult' = "err"
    /\ lastHandled' = Handled("set_overlay_always_on_top", "log-overlay", "command")
    /\ emits' = <<>>
    /\ closePrevented' = FALSE
    /\ UNCHANGED <<minimizeToTray, lastSetArg, mainWin, pending, cleanupCalled, createInFlight>>
    /\ UNCHANGED <<bootVars, setupVars, instVars, trayVars, regVars>>

\* commands::system::close_log_overlay (system.rs 540-546): window.close()
\* queues a close request for the overlay, like a user-initiated close.
CloseLogOverlay ==
    /\ CanInvoke
    /\ \E closeOk \in BOOLEAN :
         IF ~overlay.exists
         THEN /\ pending' = pending
              /\ cmdResult' = "ok"
         ELSE IF closeOk
         THEN /\ pending' = pending \cup
                    {WinEvent("CloseRequested", "log-overlay", "close_log_overlay")}
              /\ cmdResult' = "ok"
         ELSE /\ pending' = pending
              /\ cmdResult' = "err"
    /\ lastHandled' = Handled("close_log_overlay", "log-overlay", "command")
    /\ emits' = <<>>
    /\ closePrevented' = FALSE
    /\ UNCHANGED <<minimizeToTray, lastSetArg, mainWin, overlay, cleanupCalled, createInFlight>>
    /\ UNCHANGED <<bootVars, setupVars, instVars, trayVars, regVars>>

(***************************************************************************)
(* tray.rs : the tray icon's menu and click handlers                       *)
(***************************************************************************)

TrayMenuIds == {"show", "start", "stop", "quit", "other"}

\* TrayMenuEmits without the test that the main window exists.
TrayMenuEmitsUnguarded(id, mw) ==
    IF id = "start"
    THEN << [name |-> "tray-start-tasks", target |-> "main", payload |-> <<>>] >>
    ELSE IF id = "stop"
    THEN << [name |-> "tray-stop-tasks", target |-> "main", payload |-> <<>>] >>
    ELSE <<>>

\* Events emitted by on_menu_event for menu item `id` (tray.rs 56-67).
TrayMenuEmits(id, mw) ==
    IF id = "start" /\ mw.exists
    THEN << [name |-> "tray-start-tasks", target |-> "main", payload |-> <<>>] >>
    ELSE IF id = "stop" /\ mw.exists
    THEN << [name |-> "tray-stop-tasks", target |-> "main", payload |-> <<>>] >>
    ELSE <<>>

\* Whether on_menu_event for `id` calls app.exit(0) (tray.rs 68-71).
TrayMenuExits(id) == id = "quit"

\* on_menu_event (tray.rs 50-74).
TrayMenu(id) ==
    /\ pc = "running"
    /\ trayReady
    /\ emits' = TrayMenuEmits(id, mainWin)
    /\ mainWin' = IF id = "show" THEN show_main_window(mainWin) ELSE mainWin
    /\ IF TrayMenuExits(id)
       THEN pc' = "exited" /\ exitCode' = 0
       ELSE pc' = pc /\ exitCode' = exitCode
    /\ lastHandled' = Handled("tray_menu", id, "user")
    /\ UNCHANGED <<regWow, regNative, installedSeen, promptShown, dialog,
                   installError, ensured, uiStarted>>
    /\ closePrevented' = FALSE
    /\ cmdResult' = "none"
    /\ UNCHANGED <<minimizeToTray, lastSetArg, overlay, pending, cleanupCalled, createInFlight>>
    /\ UNCHANGED <<setupVars, instVars, trayVars, regVars>>

\* on_tray_icon_event, left button released (tray.rs 75-85).
TrayLeftClick ==
    /\ pc = "running"
    /\ trayReady
    /\ mainWin' = show_main_window(mainWin)
    /\ lastHandled' = Handled("tray_click", "", "user")
    /\ emits' = <<>>
    /\ closePrevented' = FALSE
    /\ cmdResult' = "none"
    /\ UNCHANGED <<minimizeToTray, lastSetArg, overlay, pending, cleanupCalled, createInFlight>>
    /\ UNCHANGED <<bootVars, setupVars, instVars, trayVars, regVars>>

(***************************************************************************)
(* tray.rs: update_tray_icon and update_tray_tooltip                       *)
(*                                                                         *)
(* A path is the sequence of its components; an icon_path argument is      *)
(* [abs, comps].  The file system below is the one the commands run on.    *)
(***************************************************************************)

\* std::env::current_exe().parent(), already canonical.
ExeDir == <<"opt", "mxu">>

Dirs == {<<>>, <<"opt">>, <<"opt", "mxu">>, <<"opt", "mxu", "icons">>,
         <<"opt", "mxu2">>, <<"etc">>}

\* Regular files and whether Image::from_bytes accepts their content.
ImageFiles == {<<"opt", "mxu", "icon.png">>,
               <<"opt", "mxu", "icons", "busy.png">>,
               <<"opt", "mxu", "a..b.png">>,
               <<"opt", "mxu2", "icon.png">>,
               <<"etc", "secret.png">>}
OtherFiles == {<<"opt", "mxu", "icons", "notes.txt">>}
Files == ImageFiles \cup OtherFiles

\* Symbolic links and their (canonical) targets.
Symlinks == [p \in {<<"opt", "mxu", "out.png">>, <<"opt", "mxu", "in.png">>} |->
               IF p = <<"opt", "mxu", "out.png">>
               THEN <<"etc", "secret.png">>
               ELSE <<"opt", "mxu", "icon.png">>]

\* The component names that contain two consecutive dots.
DotDotNames == {"..", "a..b.png"}

Rel(comps) == [abs |-> FALSE, comps |-> comps]
Abs(comps) == [abs |-> TRUE, comps |-> comps]

\* The icon_path values the front end passes.
IconPaths == {Rel(<<"icon.png">>),
              Rel(<<"icons", "busy.png">>),
              Rel(<<"icons", "notes.txt">>),
              Rel(<<"icons">>),
              Rel(<<"missing.png">>),
              Rel(<<"..", "..", "etc", "secret.png">>),
              Rel(<<"icons", "..", "icon.png">>),
              Rel(<<"a..b.png">>),
              Rel(<<"out.png">>),
              Rel(<<"in.png">>),
              Abs(<<"etc", "secret.png">>),
              Abs(<<"opt", "mxu", "icon.png">>),
              Abs(<<"opt", "mxu2", "icon.png">>)}

NoIconArg == Rel(<<>>)
DefaultIcon == [custom |-> FALSE, path |-> <<>>]

\* str::contains("..") on icon_path (tray.rs 125).
contains_dotdot(icon_path) ==
    \E i \in DOMAIN icon_path.comps : icon_path.comps[i] \in DotDotNames

\* PathBuf::join (tray.rs 136): an absolute argument replaces the base.
join(base, icon_path) ==
    IF icon_path.abs THEN icon_path.comps ELSE base \o icon_path.comps

\* Resolution of a path component by component: ".." goes to the parent,
\* a symbolic link to its target; a component under something that is not a
\* directory does not resolve.
Unresolved == <<"?">>
RECURSIVE Walk(_, _)
Walk(cur, rest) ==
    IF rest = <<>> THEN cur
    ELSE IF cur \notin Dirs THEN Unresolved
    ELSE LET c == Head(rest)
             nxt == IF c = ".."
                    THEN IF cur = <<>> THEN cur
                         ELSE SubSeq(cur, 1, Len(cur) - 1)
                    ELSE cur \o <<c>>
             tgt == IF nxt \in DOMAIN Symlinks THEN Symlinks[nxt] ELSE nxt
         IN  Walk(tgt, Tail(rest))

\* Path::canonicalize (tray.rs 139-144): fails unless the path exists.
canonicalize(path) ==
    LET r == Walk(<<>>, path)
    IN  IF r \in Files \cup Dirs
        THEN [ok |-> TRUE, path |-> r]
        ELSE [ok |-> FALSE, path |-> Unresolved]

\* A containment test that accepts every path.
starts_with_anything(path, base) == TRUE

\* Path::starts_with (tray.rs 146): whole components, not characters.
starts_with(path, base) ==
    /\ Len(base) <= Len(path)
    /\ SubSeq(path, 1, Len(base)) = base

\* tray::update_tray_icon (tray.rs 123-171): the result, the files read and
\* the icon afterwards.
update_tray_icon(icon_path, icon, ready, exeOk, setOk) ==
    LET failed == [ret |-> "err", read |-> {}, icon |-> icon]
        canonical_path == canonicalize(join(ExeDir, icon_path))
        canonical_exe_dir == canonicalize(ExeDir)
    IN  IF contains_dotdot(icon_path) THEN failed
        ELSE IF ~exeOk THEN failed
        ELSE IF ~canonical_path.ok \/ ~canonical_exe_dir.ok THEN failed
        ELSE IF ~starts_with(canonical_path.path, canonical_exe_dir.path)
        THEN failed
        ELSE IF canonical_path.path \notin ImageFiles \/ ~ready \/ ~setOk
        THEN [failed EXCEPT !.read = {canonical_path.path}]
        ELSE [ret |-> "ok", read |-> {canonical_path.path},
              icon |-> [custom |-> TRUE, path |-> canonical_path.path]]

\* commands::tray::update_tray_icon (commands/tray.rs 18-22).
UpdateTrayIcon(icon_path) ==
    /\ CanInvoke
    /\ \E exeOk \in BOOLEAN, setOk \in BOOLEAN :
         LET r == update_tray_icon(icon_path, trayIcon, trayReady, exeOk, setOk)
         IN  /\ trayIcon' = r.icon
             /\ iconRead' = r.read
             /\ cmdResult' = r.ret
    /\ iconArg' = icon_path
    /\ lastHandled' = Handled("update_tray_icon", "tray", "command")
    /\ emits' = <<>>
    /\ closePrevented' = FALSE
    /\ UNCHANGED <<minimizeToTray, lastSetArg, mainWin, overlay, pending,
                   cleanupCalled, createInFlight, trayTooltip>>
    /\ UNCHANGED <<bootVars, setupVars, instVars, regVars>>

\* The tooltips the front end sets.
Tooltips == {"MXU", "MXU - running"}

\* commands::tray::update_tray_tooltip (commands/tray.rs 25-28, tray.rs
\* 174-188).
UpdateTrayTooltip(tooltip) ==
    /\ CanInvoke
    /\ \E setOk \in BOOLEAN :
         IF trayReady /\ setOk
         THEN /\ trayTooltip' = tooltip
              /\ cmdResult' = "ok"
         ELSE /\ trayTooltip' = trayTooltip
              /\ cmdResult' = "err"
    /\ lastHandled' = Handled("update_tray_tooltip", "tray", "command")
    /\ emits' = <<>>
    /\ closePrevented' = FALSE
    /\ iconRead' = {}
    /\ UNCHANGED <<minimizeToTray, lastSetArg, mainWin, overlay, pending,
                   cleanupCalled, createInFlight, trayIcon, iconArg>>
    /\ UNCHANGED <<bootVars, setupVars, instVars, regVars>>

(***************************************************************************)
(* mxu_actions.rs: registration of the built-in custom actions             *)
(***************************************************************************)

MXU_SLEEP_ACTION == "MXU_SLEEP_ACTION"
MXU_LAUNCH_ACTION == "MXU_LAUNCH_ACTION"

\* The callbacks handed to the vendor library.
get_mxu_sleep_action == "mxu_sleep_action"
get_mxu_launch_action == "mxu_launch_action"

\* The resources the caller has created.
Resources == {"res1", "res2"}

\* MaaBool is a u8; the vendor library reports failure as 0.
MaaBools == {0, 1, 255}

NoCallback == "none"
EmptyRegistry ==
    [r \in Resources |->
       [n \in {MXU_SLEEP_ACTION, MXU_LAUNCH_ACTION} |-> NoCallback]]

\* One MaaResourceRegisterCustomAction call and what it returned.
RegisterCall(resource, name, callback, result) ==
    [resource |-> resource, name |-> name, callback |-> callback,
     result |-> result]

\* The log line written after a registration (mxu_actions.rs 222-226,
\* 239-243).
RegisterLog(result) == IF result # 0 THEN "info" ELSE "warn"

\* A registration entry that gives up with Err when the first registration
\* fails.
register_all_mxu_actions_failing_fast(resource, result1, result2) ==
    IF result1 = 0
    THEN [calls |-> <<RegisterCall(resource, MXU_SLEEP_ACTION,
                                   get_mxu_sleep_action, result1)>>,
          log |-> <<RegisterLog(result1)>>,
          ret |-> "err"]
    ELSE [calls |-> <<RegisterCall(resource, MXU_SLEEP_ACTION,
                                   get_mxu_sleep_action, result1),
                      RegisterCall(resource, MXU_LAUNCH_ACTION,
                                   get_mxu_launch_action, result2)>>,
          log |-> <<RegisterLog(result1), RegisterLog(result2)>>,
          ret |-> "ok"]

\* register_all_mxu_actions (mxu_actions.rs 207-246): the calls it makes,
\* what it logs and what it returns, given the vendor library's results.
register_all_mxu_actions(resource, result1, result2) ==
    [calls |-> <<RegisterCall(resource, MXU_SLEEP_ACTION,
                              get_mxu_sleep_action, result1),
                 RegisterCall(resource, MXU_LAUNCH_ACTION,
                              get_mxu_launch_action, result2)>>,
     log |-> <<RegisterLog(result1), RegisterLog(result2)>>,
     ret |-> "ok"]

\* The vendor library's registry after a sequence of calls: a call that
\* returned non-zero stored its callback under its name.
RECURSIVE ApplyCalls(_, _)
ApplyCalls(reg, calls) ==
    IF calls = <<>> THEN reg
    ELSE LET c == Head(calls)
             reg1 == IF c.result # 0
                     THEN [reg EXCEPT ![c.resource][c.name] = c.callback]
                     ELSE reg
         IN  ApplyCalls(reg1, Tail(calls))

\* A call of register_all_mxu_actions for a resource, made after the
\* resource was created; the library is loaded.
RegisterAllMxuActions(resource) ==
    /\ pc = "running"
    /\ libState = "loaded"
    /\ \E result1 \in MaaBools, result2 \in MaaBools :
         LET r == register_all_mxu_actions(resource, result1, result2)
         IN  /\ regCalls' = r.calls
             /\ regLog' = r.log
             /\ regRet' = r.ret
             /\ registry' = ApplyCalls(registry, r.calls)
    /\ UNCHANGED <<bootVars, setupVars, winVars, instVars, trayVars>>

(***************************************************************************)
(* webview2/install.rs                                                     *)
(***************************************************************************)

Archs == {"x86_64", "aarch64", "x86"}
DisabledReasons == {"none", "ifeo", "policy"}
LocalCabs == {"none", "matched", "mismatched"}
RuntimeDir == "cache/webview2_runtime"

\* get_arch_info (install.rs 30-39): Ok for the two 64-bit architectures.
get_arch_info(a) == IF a \in {"x86_64", "aarch64"} THEN "ok" ELSE "err"

\* get_webview2_runtime_dir (install.rs 42-48).
get_webview2_runtime_dir(pathOk) == IF pathOk THEN "ok" ELSE "err"

\* validate_runtime_dir without the test for msedgewebview2.exe.
validate_runtime_dir_skipped(hasExe) == "ok"

\* validate_runtime_dir (install.rs 51-60): Ok iff msedgewebview2.exe exists.
validate_runtime_dir(hasExe) == IF hasExe THEN "ok" ELSE "err"

\* Ways extract_cab_to_runtime / do_extract can end (install.rs 158-258).
ExtractOutcomes == {"pre_err", "expand_err", "reparse_err", "remove_err_kept",
                    "remove_err_lost", "create_err", "copy_err_with_exe",
                    "copy_err_without_exe", "ok_with_exe", "ok_without_exe"}

\* Result of extract_cab_to_runtime.
ExtractResult(outcome) ==
    IF outcome \in {"ok_with_exe", "ok_without_exe"} THEN "ok" ELSE "err"

\* Whether msedgewebview2.exe is in the runtime directory afterwards: the
\* directory is untouched until its removal starts, and is rebuilt from the
\* cab's contents after that.
ExtractLeavesExe(outcome, hadExe) ==
    IF outcome \in {"pre_err", "expand_err", "reparse_err", "remove_err_kept"}
    THEN hadExe
    ELSE outcome \in {"copy_err_with_exe", "ok_with_exe"}

\* IEnsureDetect with the installed test ahead of the disabled test.
IEnsureDetectInstalledFirst ==
    /\ ipc = "start"
    /\ IF sysInstalled
       THEN /\ usedSystem' = TRUE
            /\ ensureRet' = "true"
            /\ ipc' = "done"
            /\ UNCHANGED idialogs
       ELSE IF disabledReason # "none"
       THEN /\ idialogs' = Append(idialogs, "webview2_disabled")
            /\ ipc' = "dl_arch"
            /\ UNCHANGED <<usedSystem, ensureRet>>
       ELSE /\ ipc' = "dl_arch"
            /\ UNCHANGED <<idialogs, usedSystem, ensureRet>>
    /\ UNCHANGED <<disabledReason, sysInstalled, arch, exePathOk, localCab,
                   rtHasExe, envVar, validated, dlResult, dlPath>>
    /\ UNCHANGED <<bootVars, setupVars, winVars, trayVars, regVars>>

\* ensure_webview2 (install.rs 518-548): detection of the system runtime.
IEnsureDetect ==
    /\ ipc = "start"
    /\ IF disabledReason # "none"
       THEN /\ idialogs' = Append(idialogs, "webview2_disabled")
            /\ ipc' = "dl_arch"
            /\ UNCHANGED <<usedSystem, ensureRet>>
       ELSE IF sysInstalled
       THEN /\ usedSystem' = TRUE
            /\ ensureRet' = "true"
            /\ ipc' = "done"
            /\ UNCHANGED idialogs
       ELSE /\ ipc' = "dl_arch"
            /\ UNCHANGED <<idialogs, usedSystem, ensureRet>>
    /\ UNCHANGED <<disabledReason, sysInstalled, arch, exePathOk, localCab,
                   rtHasExe, envVar, validated, dlResult, dlPath>>
    /\ UNCHANGED <<bootVars, setupVars, winVars, trayVars, regVars>>

\* download_and_extract (install.rs 376-386): architecture and runtime dir.
IDlArch ==
    /\ ipc = "dl_arch"
    /\ IF get_arch_info(arch) = "err" \/ get_webview2_runtime_dir(exePathOk) = "err"
       THEN dlResult' = "err" /\ ipc' = "dl_done"
       ELSE dlResult' = dlResult /\ ipc' = "dl_local"
    /\ UNCHANGED <<disabledReason, sysInstalled, arch, exePathOk, localCab,
                   rtHasExe, envVar, validated, usedSystem, dlPath, idialogs,
                   ensureRet>>
    /\ UNCHANGED <<bootVars, setupVars, winVars, trayVars, regVars>>

\* download_and_extract (install.rs 389-396) with try_extract_local_cab
\* (install.rs 262-372): a matching cab beside the exe is extracted, then the
\* runtime directory is validated and the environment variable set.
IDlLocalCab ==
    /\ ipc = "dl_local"
    /\ \E readDirOk \in BOOLEAN, outcome \in ExtractOutcomes :
         IF ~readDirOk \/ localCab = "none"
         THEN /\ ipc' = "dl_download"
              /\ UNCHANGED <<localCab, rtHasExe, envVar, validated, dlResult,
                             dlPath, idialogs>>
         ELSE IF localCab = "mismatched"
         THEN /\ ipc' = "dl_download"
              /\ idialogs' = Append(idialogs, "arch_mismatch")
              /\ UNCHANGED <<localCab, rtHasExe, envVar, validated, dlResult,
                             dlPath>>
         ELSE /\ localCab' = "none"
              /\ rtHasExe' = ExtractLeavesExe(outcome, rtHasExe)
              /\ idialogs' = Append(idialogs, "extract_progress")
              /\ IF ExtractResult(outcome) = "err"
                 THEN /\ ipc' = "dl_download"
                      /\ UNCHANGED <<envVar, validated, dlResult, dlPath>>
                 ELSE /\ ipc' = "dl_done"
                      /\ dlPath' = "local"
                      /\ IF validate_runtime_dir(rtHasExe') = "ok"
                         THEN /\ validated' = TRUE
                              /\ envVar' = RuntimeDir
                              /\ dlResult' = "ok"
                         ELSE /\ dlResult' = "err"
                              /\ UNCHANGED <<envVar, validated>>
    /\ UNCHANGED <<disabledReason, sysInstalled, arch, exePathOk, usedSystem,
                   ensureRet>>
    /\ UNCHANGED <<bootVars, setupVars, winVars, trayVars, regVars>>

\* download_and_extract (install.rs 398-484): the download from the CDN.
IDlDownload ==
    /\ ipc = "dl_download"
    /\ idialogs' = Append(idialogs, "download_progress")
    /\ \E downloadOk \in BOOLEAN :
         IF downloadOk
         THEN /\ ipc' = "dl_extract"
              /\ UNCHANGED <<dlResult, dlPath>>
         ELSE /\ ipc' = "dl_done"
              /\ dlResult' = "err"
              /\ dlPath' = "cdn"
    /\ UNCHANGED <<disabledReason, sysInstalled, arch, exePathOk, localCab,
                   rtHasExe, envVar, validated, usedSystem, ensureRet>>
    /\ UNCHANGED <<bootVars, setupVars, winVars, trayVars, regVars>>

\* download_and_extract (install.rs 493-514): extraction of the downloaded
\* cab, validation, and the environment variable.
IDlExtract ==
    /\ ipc = "dl_extract"
    /\ \E outcome \in ExtractOutcomes :
         /\ rtHasExe' = ExtractLeavesExe(outcome, rtHasExe)
         /\ IF ExtractResult(outcome) = "ok"
               /\ validate_runtime_dir(rtHasExe') = "ok"
            THEN /\ validated' = TRUE
                 /\ envVar' = RuntimeDir
                 /\ dlResult' = "ok"
            ELSE /\ dlResult' = "err"
                 /\ UNCHANGED <<envVar, validated>>
    /\ dlPath' = "cdn"
    /\ ipc' = "dl_done"
    /\ UNCHANGED <<disabledReason, sysInstalled, arch, exePathOk, localCab,
                   usedSystem, idialogs, ensureRet>>
    /\ UNCHANGED <<bootVars, setupVars, winVars, trayVars, regVars>>

\* ensure_webview2 (install.rs 552-558): the match on download_and_extract.
IEnsureFinish ==
    /\ ipc = "dl_done"
    /\ IF dlResult = "ok"
       THEN /\ ensureRet' = "true"
            /\ UNCHANGED idialogs
       ELSE /\ ensureRet' = "false"
            /\ idialogs' = Append(idialogs, "download_failed")
    /\ ipc' = "done"
    /\ UNCHANGED <<disabledReason, sysInstalled, arch, exePathOk, localCab,
                   rtHasExe, envVar, validated, usedSystem, dlResult, dlPath>>
    /\ UNCHANGED <<bootVars, setupVars, winVars, trayVars, regVars>>

(***************************************************************************)
(* Specifications                                                          *)
(***************************************************************************)

\* install.rs before ensure_webview2 is called; it does not run under Spec.
InstallIdle ==
    /\ ipc = "start"
    /\ envVar = "unset"
    /\ validated = FALSE
    /\ usedSystem = FALSE
    /\ dlResult = "none"
    /\ dlPath = "none"
    /\ idialogs = <<>>
    /\ ensureRet = "none"

\* The process before main() runs.
BootIdle ==
    /\ pc = "start"
    /\ installedSeen = "none"
    /\ promptShown = FALSE
    /\ dialog = "none"
    /\ installError = "none"
    /\ ensured = FALSE
    /\ uiStarted = FALSE
    /\ exitCode = -1
    /\ stateManaged = FALSE
    /\ appHandleSet = FALSE
    /\ setupCalls = <<>>
    /\ setupRet = "none"
    /\ libState = "unloaded"
    /\ vcredistMissing = FALSE
    /\ trayReady = FALSE
    /\ minimizeToTray = FALSE
    /\ lastSetArg = FALSE
    /\ mainWin = [exists |-> FALSE, visible |-> FALSE, decorated |-> FALSE]
    /\ overlay = NoOverlay
    /\ pending = {}
    /\ lastHandled = Handled("none", "", "")
    /\ emits = <<>>
    /\ closePrevented = FALSE
    /\ cleanupCalled = {}
    /\ createInFlight = 0
    /\ cmdResult = "none"

\* install.rs is not called by main.rs; its inputs are fixed outside
\* SpecInstall.
InstallInputsFixed ==
    /\ disabledReason = "none"
    /\ sysInstalled = FALSE
    /\ arch = "x86_64"
    /\ exePathOk = TRUE
    /\ localCab = "none"
    /\ rtHasExe = FALSE

\* No update_tray_icon call has been made.
TrayIdle ==
    /\ trayIcon = DefaultIcon
    /\ iconArg = NoIconArg
    /\ iconRead = {}

\* No resource has any custom action registered.
RegisterIdle ==
    /\ registry = EmptyRegistry
    /\ regCalls = <<>>
    /\ regLog = <<>>
    /\ regRet = "none"

InitStartup ==
    /\ trayTooltip = ""
    /\ TrayIdle
    /\ RegisterIdle
    /\ regWow \in BOOLEAN
    /\ regNative \in BOOLEAN
    /\ BootIdle
    /\ InstallIdle
    /\ InstallInputsFixed

NextStartup ==
    \/ MainEnsure
    \/ MainExit
    \/ MainRun
    \/ Setup

SpecStartup == InitStartup /\ [][NextStartup]_vars

\* The application when the setup hook has returned and the event loop
\* starts: states SpecStartup reaches with pc = "running", here with the
\* vendor library loaded; the tray may or may not have been created.
Init ==
    /\ regWow = TRUE
    /\ regNative = TRUE
    /\ pc = "running"
    /\ installedSeen = "false"
    /\ promptShown = TRUE
    /\ dialog = "success"
    /\ installError = "none"
    /\ ensured = TRUE
    /\ uiStarted = TRUE
    /\ exitCode = -1
    /\ stateManaged = TRUE
    /\ appHandleSet = TRUE
    /\ setupCalls = SetupHook(TRUE, "present", "ok", trayReady).calls
    /\ setupRet = "ok"
    /\ libState = "loaded"
    /\ vcredistMissing = FALSE
    /\ trayReady \in BOOLEAN
    /\ minimizeToTray = FALSE
    /\ lastSetArg = FALSE
    /\ mainWin = [MainWindowAtStart EXCEPT !.decorated = FALSE]
    /\ overlay = NoOverlay
    /\ pending = {}
    /\ lastHandled = Handled("setup", "", "")
    /\ emits = <<>>
    /\ closePrevented = FALSE
    /\ cleanupCalled = {}
    /\ createInFlight = 0
    /\ cmdResult = "ok"
    /\ trayTooltip = IF trayReady THEN InitialTooltip ELSE ""
    /\ TrayIdle
    /\ RegisterIdle
    /\ InstallIdle
    /\ InstallInputsFixed

Next ==
    \/ \E e \in pending : CloseRequested(e)
    \/ \E e \in pending : Destroyed(e)
    \/ \E label \in {"main", "log-overlay"} : UserCloseRequest(label)
    \/ \E enabled \in BOOLEAN : SetMinimizeToTray(enabled)
    \/ InvokeCreateLogOverlay
    \/ CreateLogOverlayWindow
    \/ \E onTop \in BOOLEAN : SetOverlayAlwaysOnTop(onTop)
    \/ CloseLogOverlay
    \/ \E id \in TrayMenuIds : TrayMenu(id)
    \/ TrayLeftClick

Spec == Init /\ [][Next]_vars

\* The tray commands alone, from the state in which the UI starts.
NextTray ==
    \/ \E icon_path \in IconPaths : UpdateTrayIcon(icon_path)
    \/ \E tooltip \in Tooltips : UpdateTrayTooltip(tooltip)

SpecTray == Init /\ [][NextTray]_vars

\* Registration of the built-in actions for the resources, with the
\* library loaded.
NextRegister ==
    \E resource \in Resources : RegisterAllMxuActions(resource)

SpecRegister == Init /\ [][NextRegister]_vars

InitInstall ==
    /\ trayTooltip = ""
    /\ TrayIdle
    /\ RegisterIdle
    /\ regWow = FALSE
    /\ regNative = FALSE
    /\ BootIdle
    /\ InstallIdle
    /\ disabledReason \in DisabledReasons
    /\ sysInstalled \in BOOLEAN
    /\ arch \in Archs
    /\ exePathOk \in BOOLEAN
    /\ localCab \in LocalCabs
    /\ rtHasExe \in BOOLEAN

NextInstall ==
    \/ IEnsureDetect
    \/ IDlArch
    \/ IDlLocalCab
    \/ IDlDownload
    \/ IDlExtract
    \/ IEnsureFinish

SpecInstall == InitInstall /\ [][NextInstall]_vars

(***************************************************************************)
(* Properties                                                              *)
(***************************************************************************)

IsHandled(op, label) == lastHandled.op = op /\ lastHandled.label = label

\* C1 (SpecStartup): mxu_lib::run is entered only after ensure_webview2
\* returned true; once ensure_webview2 has returned false the UI is never
\* started and the only step main() takes is the exit with code 1.
C1_UiOnlyAfterEnsureTrue ==
    /\ [](uiStarted => (ensured /\ pc # "start"))
    /\ []((pc # "start" /\ ~ensured) =>
            (/\ ~uiStarted
             /\ pc \in {"checked", "exited"}
             /\ (pc = "exited" => exitCode = 1)))
    /\ [][(pc = "checked" /\ ~ensured) =>
            (pc' = "exited" /\ exitCode' = 1 /\ ~uiStarted')]_vars

\* C1 witness: the UI was started after a successful automatic install.
C1_Witness == uiStarted /\ ensured /\ pc = "running" /\ dialog = "success"

\* C2 (SpecStartup): is_webview2_installed returns true whenever one of the
\* two registry keys exists and false when neither does, so that with a key
\* present ensure_webview2 returns true without showing the install prompt.
C2_DetectsInstalledRuntime ==
    pc # "start" =>
        /\ (regWow \/ regNative) =>
              (installedSeen = "true" /\ ensured /\ ~promptShown)
        /\ (~regWow /\ ~regNative) => installedSeen = "false"

\* C3 (SpecInstall): install::ensure_webview2 returns true only when (a) the
\* system runtime is installed and not reported disabled, or (b)
\* download_and_extract returned Ok; when the system runtime is reported
\* disabled it is never used, download_and_extract is always run, and its
\* failure yields false after the download-failed dialog.
C3_EnsureTrueOnlyWhenAvailable ==
    /\ ensureRet = "true" =>
          \/ (sysInstalled /\ disabledReason = "none" /\ usedSystem
              /\ dlResult = "none")
          \/ dlResult = "ok"
    /\ disabledReason # "none" =>
          /\ ~usedSystem
          /\ ipc = "done" => dlResult # "none"
          /\ (ipc = "done" /\ dlResult = "err") =>
                (/\ ensureRet = "false"
                 /\ Len(idialogs) > 0
                 /\ idialogs[Len(idialogs)] = "download_failed")

\* C3 witness: the system runtime is installed but disabled, the standalone
\* download failed, and ensure_webview2 returned false.
C3_Witness ==
    /\ disabledReason # "none"
    /\ sysInstalled
    /\ ipc = "done"
    /\ dlResult = "err"
    /\ ensureRet = "false"

\* C4 (SpecInstall): download_and_extract returns Ok only with the runtime
\* directory validated (msedgewebview2.exe present) and the environment
\* variable set to it; on every Err the variable is left unset; on the
\* local-cab path and on the CDN path alike.
C4_OkOnlyValidatedAndEnvSet ==
    /\ dlResult = "ok" =>
          (validated /\ rtHasExe /\ envVar = RuntimeDir
           /\ dlPath \in {"local", "cdn"})
    /\ dlResult = "err" => (envVar = "unset" /\ ~validated)
    /\ dlResult = "none" => envVar = "unset"

\* C4 witness: a local cab was extracted but the runtime directory failed
\* validation, so download_and_extract returned Err on the local-cab path.
C4_Witness ==
    /\ dlResult = "err"
    /\ dlPath = "local"
    /\ ~rtHasExe
    /\ envVar = "unset"

\* C5 (Spec): a close request on the main window is prevented, and the
\* window hidden, when the most recent set_minimize_to_tray call enabled the
\* setting; it proceeds when that call disabled it or none was made.
C5_MainCloseFollowsSetting ==
    /\ IsHandled("CloseRequested", "main") =>
          IF lastSetArg
          THEN closePrevented /\ mainWin.exists /\ ~mainWin.visible
          ELSE ~closePrevented /\ ~mainWin.exists
    /\ lastHandled.op = "setup" => ~minimizeToTray

\* C5 witness: a close request on "main" was converted into minimize-to-tray.
C5_Witness ==
    /\ IsHandled("CloseRequested", "main")
    /\ lastSetArg
    /\ closePrevented
    /\ mainWin.exists
    /\ ~mainWin.visible

\* C6 (Spec): when the Destroyed event of the main window has been handled,
\* cleanup_all_agent_children was called for it and no overlay window exists.
C6_MainDestroyedCleansUp ==
    IsHandled("Destroyed", "main") =>
        ("main" \in cleanupCalled /\ ~overlay.exists)

\* C6 witness: handling the destruction of "main" destroyed an overlay.
C6_Witness ==
    /\ IsHandled("Destroyed", "main")
    /\ "main" \in cleanupCalled
    /\ WinEvent("Destroyed", "log-overlay", "main_destroyed") \in pending

\* C7 (Spec): after a close request on the main window has been handled no
\* overlay window exists, whether the close proceeded or was prevented.
C7_NoOverlayAfterMainClose ==
    IsHandled("CloseRequested", "main") => ~overlay.exists

\* C7 witness: a prevented close of "main" destroyed the overlay.
C7_Witness ==
    /\ IsHandled("CloseRequested", "main")
    /\ closePrevented
    /\ WinEvent("Destroyed", "log-overlay", "main_close_requested") \in pending

\* C8 (Spec): once the close request queued by close_log_overlay has been
\* handled no window labelled "log-overlay" remains, whatever the
\* minimize-to-tray setting; without an overlay the command returns Ok and
\* queues nothing.
C8_CloseLogOverlayCloses ==
    /\ (IsHandled("CloseRequested", "log-overlay")
        /\ lastHandled.by = "close_log_overlay") => ~overlay.exists
    /\ (IsHandled("close_log_overlay", "log-overlay") /\ ~overlay.exists) =>
          (cmdResult = "ok" /\ EventsOf("log-overlay") \subseteq
                {e \in pending : e.ev = "Destroyed"})

\* C9 (Spec): whenever "log-overlay-closed" has been emitted, the close
\* request that emitted it was not prevented and the overlay window is gone.
C9_OverlayClosedEventMeansClosed ==
    (Len(emits) > 0 /\ emits[1].name = "log-overlay-closed") =>
        (~closePrevented /\ ~overlay.exists)

\* C10 (Spec): the tray item "quit" exits the application with code 0
\* whatever the minimize-to-tray setting; "start" and "stop" emit exactly
\* their event to the main window when it exists and nothing otherwise, and
\* change nothing else.
C10_TrayMenu ==
    /\ [](IsHandled("tray_menu", "quit") => (pc = "exited" /\ exitCode = 0))
    /\ [](IsHandled("tray_menu", "start") =>
            (/\ pc = "running"
             /\ emits = IF mainWin.exists
                        THEN << [name |-> "tray-start-tasks", target |-> "main",
                                 payload |-> <<>>] >>
                        ELSE <<>>))
    /\ [](IsHandled("tray_menu", "stop") =>
            (/\ pc = "running"
             /\ emits = IF mainWin.exists
                        THEN << [name |-> "tray-stop-tasks", target |-> "main",
                                 payload |-> <<>>] >>
                        ELSE <<>>))
    /\ [][(lastHandled'.op = "tray_menu" /\ lastHandled'.label \in {"start", "stop"})
            => UNCHANGED <<minimizeToTray, mainWin, overlay, pending,
                           cleanupCalled, createInFlight, pc, exitCode>>]_vars

\* C10 witness: "quit" was chosen while minimize-to-tray was enabled.
C10_Witness ==
    /\ IsHandled("tray_menu", "quit")
    /\ minimizeToTray
    /\ pc = "exited"
    /\ exitCode = 0

\* C12 (as stated): in every state in which the overlay window exists, its
\* always-on-top attribute is set.
C12_OverlayAlwaysOnTop ==
    overlay.exists => overlay.onTop

\* C12 (amended): while the overlay window exists, its always-on-top
\* attribute is the always_on_top argument it was built with or, after a
\* successful set_overlay_always_on_top, the argument of the last such call;
\* a create_log_overlay_window call that finds the window already there does
\* not change it.
C12_OverlayOnTopAsRequested ==
    /\ [](overlay.exists => overlay.onTop = overlay.askedOnTop)
    /\ [][(/\ lastHandled'.op = "create_log_overlay_window"
           /\ overlay.exists)
          => overlay'.onTop = overlay.onTop]_vars
    /\ [][(/\ lastHandled'.op = "set_overlay_always_on_top"
           /\ cmdResult' = "err")
          => overlay'.onTop = overlay.onTop]_vars

\* The overlay exists without the always-on-top attribute, as requested.
C12_Witness ==
    /\ overlay.exists
    /\ ~overlay.onTop
    /\ ~overlay.askedOnTop
    /\ IsHandled("set_overlay_always_on_top", "log-overlay")
    /\ cmdResult = "ok"
\* Whether a canonical path lies in or under a directory.
LiesUnder(path, dir) ==
    /\ Len(path) >= Len(dir)
    /\ \A i \in 1..Len(dir) : path[i] = dir[i]

\* The icon_path values C11 is about: they contain ".." or resolve to a
\* place outside the exe directory.
OutsideAppDir(icon_path) ==
    \/ \E i \in DOMAIN icon_path.comps : icon_path.comps[i] \in DotDotNames
    \/ LET c == canonicalize(join(ExeDir, icon_path))
       IN  c.ok /\ ~LiesUnder(c.path, ExeDir)

\* C11 (SpecTray): update_tray_icon with an icon_path that contains ".." or
\* whose canonical location is not under the canonical exe directory returns
\* Err, reads no file and leaves the tray icon as it was; whatever it reads
\* or shows lies under the exe directory.
C11_IconOnlyFromAppDir ==
    /\ []((IsHandled("update_tray_icon", "tray") /\ OutsideAppDir(iconArg))
          => (cmdResult = "err" /\ iconRead = {}))
    /\ [][(lastHandled'.op = "update_tray_icon" /\ OutsideAppDir(iconArg'))
          => trayIcon' = trayIcon]_vars
    /\ [](\A p \in iconRead : LiesUnder(p, ExeDir))
    /\ [](trayIcon.custom => LiesUnder(trayIcon.path, ExeDir))

\* An absolute path outside the exe directory was refused while a custom
\* icon loaded earlier is still shown.
C11_Witness ==
    /\ IsHandled("update_tray_icon", "tray")
    /\ iconArg = Abs(<<"etc", "secret.png">>)
    /\ cmdResult = "err"
    /\ iconRead = {}
    /\ trayIcon = [custom |-> TRUE, path |-> <<"opt", "mxu", "icon.png">>]
\* C13 (SpecRegister): every run of register_all_mxu_actions makes exactly
\* two registration calls on the given resource, MXU_SLEEP_ACTION with the
\* sleep callback first and MXU_LAUNCH_ACTION with the launch callback
\* second, whatever the first returned, and returns Ok.
C13_RegistersBothReturnsOk ==
    regRet # "none" =>
        /\ regRet = "ok"
        /\ Len(regCalls) = 2
        /\ regCalls[1].name = "MXU_SLEEP_ACTION"
        /\ regCalls[1].callback = "mxu_sleep_action"
        /\ regCalls[2].name = "MXU_LAUNCH_ACTION"
        /\ regCalls[2].callback = "mxu_launch_action"
        /\ regCalls[1].resource = regCalls[2].resource
        /\ Len(regLog) = 2
        /\ \A i \in 1..2 : regLog[i] = "warn" <=> regCalls[i].result = 0

\* The vendor library refused the first registration; the second was made
\* and accepted, and the run returned Ok.
C13_Witness ==
    /\ regRet = "ok"
    /\ Len(regCalls) = 2
    /\ regCalls[1].result = 0
    /\ regCalls[2].result # 0
    /\ registry[regCalls[2].resource]["MXU_LAUNCH_ACTION"] = "mxu_launch_action"
    /\ registry[regCalls[2].resource]["MXU_SLEEP_ACTION"] = "none"
\* The position of the first occurrence of a call in setupCalls, 0 if the
\* call was not made.
FirstCall(name) ==
    IF \E i \in DOMAIN setupCalls : setupCalls[i] = name
    THEN CHOOSE i \in DOMAIN setupCalls :
           /\ setupCalls[i] = name
           /\ \A j \in 1..(i - 1) : setupCalls[j] # name
    ELSE 0

\* C14 (SpecStartup): whatever get_maafw_dir, init_maa_library and init_tray
\* answer, the setup hook returns Ok and the event loop runs with the
\* MaaState managed and the app handle stored; init_tray is called even
\* after a failed library load, and init_maa_library is called only after
\* app.manage and set_app_handle.
C14_SetupNeverFails ==
    setupRet # "none" =>
        /\ setupRet = "ok"
        /\ pc = "running"
        /\ uiStarted
        /\ exitCode = -1
        /\ stateManaged
        /\ appHandleSet
        /\ FirstCall("init_tray") > 0
        /\ FirstCall("init_maa_library") > 0 =>
              /\ 0 < FirstCall("manage")
              /\ FirstCall("manage") < FirstCall("init_maa_library")
              /\ 0 < FirstCall("set_app_handle")
              /\ FirstCall("set_app_handle") < FirstCall("init_maa_library")

\* The library failed to load and the tray could not be created, and the
\* application is running.
C14_Witness ==
    /\ setupRet = "ok"
    /\ pc = "running"
    /\ libState = "failed"
    /\ ~trayReady
    /\ FirstCall("init_maa_library") > 0
====
